---- MODULE Spec2Model ----
(***************************************************************************)
(* Model of bin/cli.js of mo-commit: one invocation of the command line    *)
(* tool, either the setup wizard (setup) or the commit flow               *)
(* (defaultCommand).  Text values (tool output, generated message, wizard  *)
(* input, the shell command line) are sequences of one-character strings.  *)
(***************************************************************************)
EXTENDS Integers, Sequences, FiniteSets, TLC

VARIABLES
    argv,           \* parsed flags: [setup, S]
    configFile,     \* content of ~/.mo-commit-config.json
    pc,             \* position of the single control flow
    exit,           \* "running", "returned" or "uncaught" (rejected promise nobody handles)
    failure,        \* kind of the failure that ended the run, or "none"
    out,            \* lines printed with console.log / console.warn, in order
    calls,          \* collaborator operations performed, in order
    answers,        \* answers of the setup wizard
    customInput,    \* raw text typed at the custom-type question
    config,         \* configuration parsed by defaultCommand
    execResult,     \* (error, stderr) handed to the latest child-process callback
    stagedFiles,    \* files of getStagedFilesAndDiff
    diff,           \* diff of getStagedFilesAndDiff
    fileIdx,        \* loop position of getFilesContent
    filesContent,   \* content accumulated by getFilesContent
    request,        \* what was sent to the generation service
    commitMessage,  \* text returned by generateCommitMessage
    shown,          \* subject and body printed for review
    confirmCommit,  \* answer to the confirmation question
    committed       \* what the git commit process received

vars == <<argv, configFile, pc, exit, failure, out, calls, answers, customInput,
          config, execResult, stagedFiles, diff, fileIdx, filesContent, request,
          commitMessage, shown, confirmCommit, committed>>

----------------------------------------------------------------------------
(* Bounds on the inputs *)

MaxCustomLen == 4     \* longest text typed at the custom-type question
MaxStdoutLen == 3     \* longest output of the staged-paths query
MaxMsgLen == 3        \* longest generated message
MaxSelect == 2        \* the checkbox answer selects among the first MaxSelect defaults

CustomChars == {"a", ":", ",", " "}
StdoutChars == {"f", "\n", " "}
MsgChars == {"a", "\"", "\n", " "}

Texts(chars, n) == UNION {[1..k -> chars] : k \in 0..n}

None == "none"
Undefined == <<"undefined">>

----------------------------------------------------------------------------
(* String primitives of JavaScript *)

IsSpace(c) == c \in {" ", "\n"}

RECURSIVE TrimStart(_)
TrimStart(s) ==
    IF s # <<>> /\ IsSpace(Head(s)) THEN TrimStart(Tail(s)) ELSE s

RECURSIVE TrimEnd(_)
TrimEnd(s) ==
    IF s # <<>> /\ IsSpace(s[Len(s)]) THEN TrimEnd(SubSeq(s, 1, Len(s) - 1)) ELSE s

Trim(s) == TrimEnd(TrimStart(s))

FirstIndex(s, c) == CHOOSE i \in 1..Len(s) : s[i] = c /\ \A j \in 1..(i - 1) : s[j] # c

RECURSIVE Split(_, _)
Split(s, c) ==
    IF \E i \in 1..Len(s) : s[i] = c
    THEN LET i == FirstIndex(s, c)
         IN  <<SubSeq(s, 1, i - 1)>> \o Split(SubSeq(s, i + 1, Len(s)), c)
    ELSE <<s>>

RECURSIVE Join(_, _)
Join(parts, c) ==
    IF parts = <<>> THEN <<>>
    ELSE IF Len(parts) = 1 THEN parts[1]
    ELSE parts[1] \o <<c>> \o Join(Tail(parts), c)

Truthy(s) == s # Undefined /\ s # <<>>

----------------------------------------------------------------------------
(* Setup wizard *)

defaultCommitTypes ==
    << [name |-> <<"f","e","a","t">>, description |-> <<"A new feature">>, checked |-> TRUE],
       [name |-> <<"f","i","x">>, description |-> <<"A bug fix">>, checked |-> TRUE],
       [name |-> <<"d","o","c","s">>, description |-> <<"Documentation only changes">>, checked |-> FALSE],
       [name |-> <<"s","t","y","l","e">>,
        description |-> <<"Changes that do not affect the meaning of the code">>, checked |-> FALSE],
       [name |-> <<"r","e","f","a","c","t","o","r">>,
        description |-> <<"A code change that neither fixes a bug nor adds a feature">>, checked |-> FALSE],
       [name |-> <<"p","e","r","f">>,
        description |-> <<"A code change that improves performance">>, checked |-> FALSE],
       [name |-> <<"t","e","s","t">>,
        description |-> <<"Adding missing tests or correcting existing tests">>, checked |-> FALSE],
       [name |-> <<"c","h","o","r","e">>,
        description |-> <<"Changes to the build process or auxiliary tools">>, checked |-> TRUE] >>

\* one custom pair: type.split(':').map(s => s.trim()), first two parts kept
ParsePair(type) ==
    LET parts == Split(type, ":")
    IN  [name |-> Trim(parts[1]),
         description |-> IF Len(parts) >= 2 THEN Trim(parts[2]) ELSE Undefined]

KeepPair(type) == Truthy(type.name) /\ Truthy(type.description)

RECURSIVE FilterPairs(_)
FilterPairs(types) ==
    IF types = <<>> THEN <<>>
    ELSE (IF KeepPair(Head(types)) THEN <<Head(types)>> ELSE <<>>)
         \o FilterPairs(Tail(types))

\* the filter of the customCommitTypes question
CustomFilter(input) ==
    LET pairs == Split(input, ",")
    IN  FilterPairs([i \in 1..Len(pairs) |-> ParsePair(pairs[i])])

\* checkbox answers: the chosen defaults, in list order, at least one
RECURSIVE Chosen(_, _)
Chosen(S, i) ==
    IF i > Len(defaultCommitTypes) THEN <<>>
    ELSE (IF i \in S THEN <<defaultCommitTypes[i]>> ELSE <<>>) \o Chosen(S, i + 1)

Selections == {Chosen(S, 1) : S \in (SUBSET (1..MaxSelect)) \ {{}}}

CombineTypesCustomFirst(selected, custom) == custom \o selected

CombineTypes(selected, custom) == selected \o custom

----------------------------------------------------------------------------
(* Commit flow helpers *)

ConfigExistsAlways(f) == TRUE

ConfigExists(f) == f.kind # "absent"

ProviderSupportedAny(p) == TRUE

ProviderSupported(p) == p = "Anthropic"

StderrFailsNever(stderr) == FALSE

\* a query fails on diagnostic output: if (stderr) reject(...)
StderrFails(stderr) == stderr # ""

\* stdout.trim().split('\n')
StagedList(stdout) == Split(Trim(stdout), "\n")

NothingStagedLengthOnly(files) == Len(files) = 0

NothingStaged(files) == Len(files) = 0 \/ files[1] = <<>>

\* const [subject, ...body] = commitMessage.split('\n'), body printed as body.join('\n')
Display(message) ==
    LET lines == Split(message, "\n")
    IN  [subject |-> lines[1],
         hasBody |-> Len(lines) > 1,
         body |-> Join(Tail(lines), "\n")]

SignArg(sign) == IF sign = "undefined" THEN "false" ELSE sign

\* `git commit ${signFlag}-m "${message}"`
CommitCommand(message, sign) ==
    <<"g","i","t"," ","c","o","m","m","i","t"," ">>
    \o (IF sign = "true" THEN <<"-","S"," ">> ELSE <<>>)
    \o <<"-","m"," ","\"">> \o message \o <<"\"">>

\* The first command /bin/sh reads from a command line: words are separated by
\* unquoted blanks, a double quote opens or closes a quoted part of a word, an
\* unquoted line break ends the command, and a quote still open at the end of
\* the text is a syntax error.
RECURSIVE ShScan(_, _, _, _, _, _)
ShScan(cmd, i, inQuote, cur, started, words) ==
    LET done == IF started THEN Append(words, cur) ELSE words
    IN  IF i > Len(cmd)
        THEN IF inQuote THEN [ok |-> FALSE, words |-> <<>>, rest |-> <<>>]
             ELSE [ok |-> TRUE, words |-> done, rest |-> <<>>]
        ELSE IF cmd[i] = "\"" THEN ShScan(cmd, i + 1, ~inQuote, cur, TRUE, words)
        ELSE IF inQuote THEN ShScan(cmd, i + 1, TRUE, Append(cur, cmd[i]), TRUE, words)
        ELSE IF cmd[i] = "\n"
             THEN [ok |-> TRUE, words |-> done, rest |-> SubSeq(cmd, i + 1, Len(cmd))]
        ELSE IF cmd[i] = " " THEN ShScan(cmd, i + 1, FALSE, <<>>, FALSE, done)
        ELSE ShScan(cmd, i + 1, FALSE, Append(cur, cmd[i]), TRUE, words)

ShWords(cmd) == ShScan(cmd, 1, FALSE, <<>>, FALSE, <<>>)

\* what git commit is asked to do by the words of its command line
GitCommitArgs(words) ==
    LET signed == Len(words) >= 3 /\ words[3] = <<"-","S">>
        m == IF signed THEN 4 ELSE 3
    IN  [sign |-> signed,
         message |-> words[m + 1],
         pathspec |-> SubSeq(words, m + 2, Len(words))]

\* the lines after the first command: nothing to run, or a text the shell
\* cannot parse, or further commands
Blank(text) == \A i \in 1..Len(text) : IsSpace(text[i])

Unterminated(text) == Cardinality({i \in 1..Len(text) : text[i] = "\""}) % 2 = 1

----------------------------------------------------------------------------
(* State *)

NoConfig == [aiProvider |-> "", apiToken |-> "", commitTypes |-> <<>>]

StoredConfig(provider) ==
    [kind |-> "json",
     value |-> [aiProvider |-> provider, apiToken |-> "token",
                commitTypes |-> SubSeq(defaultCommitTypes, 1, 1)]]

ConfigFiles ==
    {[kind |-> "absent", value |-> NoConfig], [kind |-> "corrupt", value |-> NoConfig],
     StoredConfig("Anthropic"), StoredConfig("Other")}

NoAnswers == [aiProvider |-> "", apiToken |-> "", commitTypes |-> <<>>, customCommitTypes |-> <<>>]

NotCommitted == [done |-> FALSE, sign |-> FALSE, message |-> <<>>, pathspec |-> <<>>]

NoExec == [error |-> FALSE, stderr |-> ""]

NoRequest == [sent |-> FALSE, apiToken |-> "", filesContent |-> <<>>, diff |-> "", commitTypes |-> <<>>]

Init ==
    /\ argv \in [setup : BOOLEAN, S : {"true", "false", "undefined"}]
    /\ configFile \in ConfigFiles
    /\ pc = "start"
    /\ exit = "running"
    /\ failure = None
    /\ out = <<>>
    /\ calls = <<>>
    /\ answers = NoAnswers
    /\ customInput = <<>>
    /\ config = NoConfig
    /\ execResult = NoExec
    /\ stagedFiles = <<>>
    /\ diff = ""
    /\ fileIdx = 0
    /\ filesContent = <<>>
    /\ request = NoRequest
    /\ commitMessage = <<>>
    /\ shown = Display(<<>>)
    /\ confirmCommit = "unasked"
    /\ committed = NotCommitted

setupVars == <<answers, customInput>>
commitVars == <<config, execResult, stagedFiles, diff, fileIdx, filesContent, request,
                commitMessage, shown, confirmCommit, committed>>

\* the async function returns normally
Return ==
    /\ pc' = "end"
    /\ exit' = "returned"

\* the async function throws or awaits a rejected promise: its own promise is
\* rejected, and the call at the bottom of the file attaches no handler
Reject(kind) ==
    /\ pc' = "end"
    /\ exit' = "uncaught"
    /\ failure' = kind

----------------------------------------------------------------------------
(* setup() *)

RunSetup ==
    /\ pc = "start"
    /\ argv.setup
    /\ out' = Append(out, "Running setup...")
    /\ pc' = "askProvider"
    /\ UNCHANGED <<argv, configFile, exit, failure, calls, setupVars, commitVars>>

AskProvider ==
    /\ pc = "askProvider"
    /\ calls' = Append(calls, "askProvider")
    /\ answers' = [answers EXCEPT !.aiProvider = "Anthropic"]
    /\ pc' = "askToken"
    /\ UNCHANGED <<argv, configFile, exit, failure, out, customInput, commitVars>>

AskToken ==
    /\ pc = "askToken"
    /\ calls' = Append(calls, "askToken")
    /\ \E token \in {"token", "other token"} :
          answers' = [answers EXCEPT !.apiToken = token]
    /\ pc' = "askCommitTypes"
    /\ UNCHANGED <<argv, configFile, exit, failure, out, customInput, commitVars>>

AskCommitTypes ==
    /\ pc = "askCommitTypes"
    /\ calls' = Append(calls, "askCommitTypes")
    /\ \E selected \in Selections :
          answers' = [answers EXCEPT !.commitTypes = selected]
    /\ pc' = "askCustom"
    /\ UNCHANGED <<argv, configFile, exit, failure, out, customInput, commitVars>>

AskCustom ==
    /\ pc = "askCustom"
    /\ calls' = Append(calls, "askCustom")
    /\ \E input \in Texts(CustomChars, MaxCustomLen) :
          /\ customInput' = input
          /\ answers' = [answers EXCEPT !.customCommitTypes = CustomFilter(input)]
    /\ pc' = "save"
    /\ UNCHANGED <<argv, configFile, exit, failure, out, commitVars>>

\* the prompt promise is rejected (input stream closed, interrupted)
PromptFails ==
    /\ pc \in {"askProvider", "askToken", "askCommitTypes", "askCustom"}
    /\ calls' = Append(calls, pc)
    /\ Reject("PromptError")
    /\ UNCHANGED <<argv, configFile, out, setupVars, commitVars>>

SaveConfig ==
    /\ pc = "save"
    /\ calls' = Append(calls, "writeFile")
    /\ LET \* answers after lines 90-91
           record == [aiProvider |-> answers.aiProvider,
                      apiToken |-> answers.apiToken,
                      commitTypes |-> CombineTypes(answers.commitTypes,
                                                   answers.customCommitTypes)]
       IN  \/ /\ configFile' = [kind |-> "json", value |-> record]
              /\ out' = Append(out, "Configuration saved")
              /\ Return
              /\ UNCHANGED failure
           \/ /\ configFile' \in {configFile, [kind |-> "corrupt", value |-> NoConfig]}
              /\ Reject("WriteError")
              /\ UNCHANGED out
    /\ UNCHANGED <<argv, setupVars, commitVars>>

----------------------------------------------------------------------------
(* defaultCommand() *)

RunDefault ==
    /\ pc = "start"
    /\ ~argv.setup
    /\ calls' = Append(calls, "access")
    /\ IF ConfigExists(configFile)
       THEN /\ out' = Append(out, "Executing commit...")
            /\ pc' = "readConfig"
            /\ UNCHANGED <<exit, failure>>
       ELSE /\ out' = out \o <<"Executing commit...", "Configuration not found">>
            /\ failure' = "ConfigMissing"
            /\ Return
    /\ UNCHANGED <<argv, configFile, setupVars, commitVars>>

ReadConfig ==
    /\ pc = "readConfig"
    /\ calls' = Append(calls, "readConfig")
    /\ IF configFile.kind = "corrupt"
       THEN /\ Reject("ConfigCorrupt")
            /\ UNCHANGED <<out, config>>
       ELSE /\ config' = configFile.value
            /\ IF ProviderSupported(configFile.value.aiProvider)
               THEN /\ pc' = "stagedQuery"
                    /\ UNCHANGED <<exit, failure, out>>
               ELSE /\ out' = Append(out, "only works with Anthropic")
                    /\ Return
                    /\ UNCHANGED failure
    /\ UNCHANGED <<argv, configFile, setupVars, execResult, stagedFiles, diff, fileIdx,
                   filesContent, request, commitMessage, shown, confirmCommit, committed>>

\* outcomes of a child process: (error, stdout, stderr)
StagedOutcomes ==
    {[error |-> TRUE, stdout |-> <<>>, stderr |-> "fatal"],
     [error |-> FALSE, stdout |-> <<>>, stderr |-> "warning"],
     [error |-> FALSE, stdout |-> <<"f">>, stderr |-> "warning"]}
    \cup {[error |-> FALSE, stdout |-> t, stderr |-> ""] : t \in Texts(StdoutChars, MaxStdoutLen)}

DiffOutcomes ==
    {[error |-> TRUE, stdout |-> "", stderr |-> "fatal"],
     [error |-> FALSE, stdout |-> "diff", stderr |-> "warning"],
     [error |-> FALSE, stdout |-> "diff", stderr |-> ""],
     [error |-> FALSE, stdout |-> "", stderr |-> ""]}

\* exec('git diff --cached --name-only', ...) and its callback
StagedQuery ==
    /\ pc = "stagedQuery"
    /\ calls' = Append(calls, "stagedQuery")
    /\ \E r \in StagedOutcomes :
          /\ execResult' = [error |-> r.error, stderr |-> r.stderr]
          /\ IF r.error \/ StderrFails(r.stderr)
             THEN /\ Reject("VcsQueryError")
                  /\ UNCHANGED stagedFiles
             ELSE /\ stagedFiles' = StagedList(r.stdout)
                  /\ pc' = "diffQuery"
                  /\ UNCHANGED <<exit, failure>>
    /\ UNCHANGED <<argv, configFile, out, setupVars, config, diff, fileIdx, filesContent,
                   request, commitMessage, shown, confirmCommit, committed>>

\* exec('git diff --cached', ...), its callback, and lines 122-127
DiffQuery ==
    /\ pc = "diffQuery"
    /\ calls' = Append(calls, "diffQuery")
    /\ \E r \in DiffOutcomes :
          /\ execResult' = [error |-> r.error, stderr |-> r.stderr]
          /\ IF r.error \/ StderrFails(r.stderr)
             THEN /\ Reject("VcsQueryError")
                  /\ UNCHANGED <<diff, out, fileIdx>>
             ELSE /\ diff' = r.stdout
                  /\ IF NothingStaged(stagedFiles)
                     THEN /\ out' = Append(out, "No files in staging")
                          /\ Return
                          /\ UNCHANGED <<failure, fileIdx>>
                     ELSE /\ pc' = "readFiles"
                          /\ fileIdx' = 1
                          /\ UNCHANGED <<exit, failure, out>>
    /\ UNCHANGED <<argv, configFile, setupVars, config, stagedFiles, filesContent,
                   request, commitMessage, shown, confirmCommit, committed>>

ReadErrorSkipsFile ==
    /\ fileIdx' = fileIdx + 1
    /\ pc' = IF fileIdx = Len(stagedFiles) THEN "generate" ELSE "readFiles"
    /\ UNCHANGED <<filesContent, exit, failure>>

\* a rejected fs.readFile ends getFilesContent and defaultCommand
ReadError ==
    /\ Reject("FileReadError")
    /\ UNCHANGED <<filesContent, fileIdx>>

\* one iteration of the loop of getFilesContent
ReadFile ==
    /\ pc = "readFiles"
    /\ calls' = Append(calls, "readFile")
    /\ \/ /\ filesContent' = Append(filesContent,
                                    [file |-> stagedFiles[fileIdx], content |-> "text"])
          /\ fileIdx' = fileIdx + 1
          /\ pc' = IF fileIdx = Len(stagedFiles) THEN "generate" ELSE "readFiles"
          /\ UNCHANGED <<exit, failure>>
       \/ ReadError
    /\ UNCHANGED <<argv, configFile, out, setupVars, config, execResult, stagedFiles, diff,
                   request, commitMessage, shown, confirmCommit, committed>>

\* generateCommitMessage and the display of lines 135-146
Generate ==
    /\ pc = "generate"
    /\ calls' = Append(calls, "generate")
    /\ request' = [sent |-> TRUE, apiToken |-> config.apiToken,
                   filesContent |-> filesContent, diff |-> diff,
                   commitTypes |-> config.commitTypes]
    /\ \/ /\ Reject("GenerationError")
          /\ UNCHANGED <<out, commitMessage, shown>>
       \/ \E text \in Texts(MsgChars, MaxMsgLen) :
             /\ commitMessage' = text
             /\ shown' = Display(text)
             /\ out' = Append(out, "Generated Commit Message")
             /\ pc' = "confirm"
             /\ UNCHANGED <<exit, failure>>
    /\ UNCHANGED <<argv, configFile, setupVars, config, execResult, stagedFiles, diff,
                   fileIdx, filesContent, confirmCommit, committed>>

\* the confirmation prompt and the else branch of line 157
Confirm ==
    /\ pc = "confirm"
    /\ calls' = Append(calls, "confirm")
    /\ \/ /\ confirmCommit' = "yes"
          /\ pc' = "commit"
          /\ UNCHANGED <<exit, failure, out>>
       \/ /\ confirmCommit' = "no"
          /\ out' = Append(out, "Commit cancelled.")
          /\ Return
          /\ UNCHANGED failure
       \/ /\ Reject("PromptError")
          /\ UNCHANGED <<confirmCommit, out>>
    /\ UNCHANGED <<argv, configFile, setupVars, config, execResult, stagedFiles, diff,
                   fileIdx, filesContent, request, commitMessage, shown, committed>>

\* makeCommit(commitMessage, argv.S) and line 159
MakeCommit ==
    /\ pc = "commit"
    /\ calls' = Append(calls, "commit")
    /\ LET sh == ShWords(CommitCommand(commitMessage, SignArg(argv.S)))
           args == GitCommitArgs(sh.words)
       IN  IF ~sh.ok
           THEN \* the shell rejects the command line, nothing runs
                /\ execResult' = [error |-> TRUE, stderr |-> "fatal"]
                /\ Reject("CommitError")
                /\ UNCHANGED <<out, committed>>
           ELSE \E git \in {"error", "ok", "diagnostic"}, status \in BOOLEAN :
                   \* git refuses an empty message
                   /\ args.message = <<>> => git = "error"
                   \* status: the exit status of the command line is that of
                   \* its last command
                   /\ Blank(sh.rest) => status = (git # "error")
                   /\ Unterminated(sh.rest) => ~status
                   /\ execResult' = [error |-> ~status,
                                     stderr |-> IF git = "ok" /\ status THEN "" ELSE "warning"]
                   /\ committed' = IF git = "error" THEN committed
                                   ELSE [done |-> TRUE, sign |-> args.sign,
                                         message |-> args.message,
                                         pathspec |-> args.pathspec]
                   /\ IF execResult'.error
                      THEN /\ Reject("CommitError")
                           /\ UNCHANGED out
                      ELSE /\ out' = out
                                \o (IF execResult'.stderr # ""
                                    THEN <<"Warning while making commit">> ELSE <<>>)
                                \o <<"Commit successfully made.">>
                           /\ Return
                           /\ UNCHANGED failure
    /\ UNCHANGED <<argv, configFile, setupVars, config, stagedFiles, diff, fileIdx,
                   filesContent, request, commitMessage, shown, confirmCommit>>

----------------------------------------------------------------------------

Next ==
    \/ RunSetup
    \/ AskProvider
    \/ AskToken
    \/ AskCommitTypes
    \/ AskCustom
    \/ PromptFails
    \/ SaveConfig
    \/ RunDefault
    \/ ReadConfig
    \/ StagedQuery
    \/ DiffQuery
    \/ ReadFile
    \/ Generate
    \/ Confirm
    \/ MakeCommit

Spec == Init /\ [][Next]_vars

TypeOK ==
    /\ pc \in {"start", "askProvider", "askToken", "askCommitTypes", "askCustom", "save",
               "readConfig", "stagedQuery", "diffQuery", "readFiles", "generate",
               "confirm", "commit", "end"}
    /\ exit \in {"running", "returned", "uncaught"}
    /\ (pc = "end") = (exit # "running")

----------------------------------------------------------------------------
(* Properties *)

Has(c) == \E i \in DOMAIN calls : calls[i] = c

Count(c) == Cardinality({i \in DOMAIN calls : calls[i] = c})

LastCall == IF calls = <<>> THEN "" ELSE calls[Len(calls)]

LastOut == IF out = <<>> THEN "" ELSE out[Len(out)]

NoLaterSteps == ~Has("readFile") /\ ~Has("generate") /\ ~Has("confirm") /\ ~Has("commit")

\* the text the review block shows: the subject, then the body lines
ShownText == IF shown.hasBody THEN shown.subject \o <<"\n">> \o shown.body ELSE shown.subject

\* C1 (as claimed): a commit is made only after the confirmation question was
\* asked in the run and answered yes, and git commits the message that was
\* shown for confirmation.
C1_CommitOnlyApprovedMessage ==
    /\ Has("commit") => /\ confirmCommit = "yes"
                        /\ \E i, j \in DOMAIN calls :
                              i < j /\ calls[i] = "confirm" /\ calls[j] = "commit"
    /\ committed.done => /\ confirmCommit = "yes"
                         /\ committed.message = ShownText

\* the ordering half of C1 alone: no commit is attempted before a yes
CommitOnlyAfterYes ==
    (Has("commit") \/ committed.done)
        => /\ confirmCommit = "yes"
           /\ ~argv.setup
           /\ \E i, j \in DOMAIN calls : i < j /\ calls[i] = "confirm" /\ calls[j] = "commit"

\* C2 (as claimed): every failure of a run is caught by the entry's branch and
\* ends the run with one user-visible message; no failure escapes uncaught.
C2_EveryFailureCaught ==
    failure # None => /\ pc = "end"
                      /\ exit = "returned"
                      /\ LastOut = "Configuration not found"

\* C3: with the configuration file absent, the commit flow reports
\* ConfigMissing and ends before any collaborator is called.
C3_ConfigMissingAborts ==
    (~argv.setup /\ configFile.kind = "absent" /\ pc # "start")
        => /\ pc = "end"
           /\ exit = "returned"
           /\ failure = "ConfigMissing"
           /\ LastOut = "Configuration not found"
           /\ calls = <<"access">>
           /\ ~request.sent /\ confirmCommit = "unasked" /\ ~committed.done

C3_Witness ==
    ~argv.setup /\ configFile.kind = "absent" /\ pc = "end" /\ failure = "ConfigMissing"

\* the staged-paths query answered, and its answer means nothing is staged
StagedNothing == Has("diffQuery") /\ (stagedFiles = <<>> \/ stagedFiles = << <<>> >>)

\* C4 (as claimed): when the staged-paths query yields nothing staged, the run
\* prints the nothing-staged notice and ends without error, and reads no file,
\* sends no generation request, asks no confirmation and makes no commit.
C4_NothingStagedEndsWithNotice ==
    StagedNothing
        => /\ NoLaterSteps
           /\ pc = "end" => /\ exit = "returned"
                            /\ failure = None
                            /\ LastOut = "No files in staging"

\* C4 (amended): when the staged-paths query yields nothing staged, no file is
\* read, no generation request is sent, no confirmation is asked and no commit
\* is made; the run ends with the nothing-staged notice and without error when
\* the diff query, which runs before the check, succeeds, and with
\* VcsQueryError and no notice when the diff query fails.
C4_NothingStagedAmended ==
    StagedNothing
        => /\ NoLaterSteps
           /\ ~request.sent /\ confirmCommit = "unasked" /\ ~committed.done
           /\ pc = "end"
           /\ IF execResult.error \/ execResult.stderr # ""
              THEN exit = "uncaught" /\ failure = "VcsQueryError"
                   /\ LastOut # "No files in staging"
              ELSE exit = "returned" /\ failure = None
                   /\ LastOut = "No files in staging"

C4_Witness ==
    /\ StagedNothing
    /\ stagedFiles = << <<>> >>
    /\ pc = "end"
    /\ LastOut = "No files in staging"

\* C5 (as claimed): on approval git commit receives exactly the generated
\* text as its message, and the signing flag exactly when -S was given.
C5_CommitsGeneratedTextVerbatim ==
    committed.done => /\ committed.message = commitMessage
                      /\ committed.pathspec = <<>>
                      /\ committed.sign = (argv.S = "true")

\* the custom-type rule as the claim words it: split each pair on its first
\* colon only
FirstColonPair(type) ==
    IF \E i \in 1..Len(type) : type[i] = ":"
    THEN LET i == FirstIndex(type, ":")
         IN  [name |-> Trim(SubSeq(type, 1, i - 1)),
              description |-> Trim(SubSeq(type, i + 1, Len(type)))]
    ELSE [name |-> Trim(type), description |-> Undefined]

FirstColonFilter(input) ==
    LET pairs == Split(input, ",")
    IN  FilterPairs([i \in 1..Len(pairs) |-> FirstColonPair(pairs[i])])

\* C6 (as claimed): each comma-separated pair is split on its first colon
\* only, name and description trimmed, further colons kept in the
\* description; pairs with an empty name or description are dropped and the
\* others keep their order.
C6_SplitOnFirstColon ==
    pc = "save" => answers.customCommitTypes = FirstColonFilter(customInput)

\* C7: a failed read of a staged file ends the run with no generation
\* request, confirmation or commit, and a generation request always carries
\* one block per staged file, in order.
C7_ReadFailureIsFatal ==
    /\ failure = "FileReadError"
          => /\ pc = "end"
             /\ ~Has("generate") /\ ~Has("confirm") /\ ~Has("commit")
             /\ ~request.sent /\ confirmCommit = "unasked" /\ ~committed.done
    /\ (request.sent \/ Has("generate"))
          => /\ Len(request.filesContent) = Len(stagedFiles)
             /\ \A i \in DOMAIN stagedFiles : request.filesContent[i].file = stagedFiles[i]
             /\ Count("readFile") = Len(stagedFiles)

\* a read failed after an earlier file had been read
C7_Witness ==
    failure = "FileReadError" /\ Len(filesContent) >= 1 /\ Len(stagedFiles) >= 2

DiagnosticOnly == ~execResult.error /\ execResult.stderr # ""

\* C8: diagnostic output without an error fails the staged-paths query and
\* the diff query (VcsQueryError, no later step), but on the commit it is
\* logged as a warning and the run reports the commit as made.
C8_StderrAsymmetry ==
    /\ (LastCall = "stagedQuery" /\ DiagnosticOnly)
          => /\ pc = "end" /\ exit = "uncaught" /\ failure = "VcsQueryError"
             /\ ~Has("diffQuery") /\ NoLaterSteps
    /\ (LastCall = "diffQuery" /\ DiagnosticOnly)
          => /\ pc = "end" /\ exit = "uncaught" /\ failure = "VcsQueryError"
             /\ NoLaterSteps
    /\ (LastCall = "commit" /\ DiagnosticOnly)
          => /\ pc = "end" /\ exit = "returned" /\ failure = None
             /\ Len(out) >= 2
             /\ out[Len(out) - 1] = "Warning while making commit"
             /\ LastOut = "Commit successfully made."
    /\ (Has("readFile") \/ Has("generate") \/ Has("confirm") \/ Has("commit"))
          => Count("stagedQuery") = 1 /\ Count("diffQuery") = 1

C8_Witness ==
    LastCall = "commit" /\ DiagnosticOnly /\ committed.done

SetupCalls == {"askProvider", "askToken", "askCommitTypes", "askCustom", "writeFile"}

Rank(c) ==
    CASE c = "access" -> 1
      [] c = "readConfig" -> 2
      [] c = "stagedQuery" -> 3
      [] c = "diffQuery" -> 4
      [] c = "readFile" -> 5
      [] c = "generate" -> 6
      [] c = "confirm" -> 7
      [] c = "commit" -> 8
      [] OTHER -> 0

\* C9: setup mode is entered exactly when the setup flag is present and never
\* touches version control, the generation service or a commit; otherwise
\* the steps happen in the order config load, provider check, staged-paths
\* query, diff query, file reads, generation, confirmation, commit, none
\* skipped and none repeated, and an unsupported provider ends the run before
\* the staged-paths query.
C9_ModeAndStepOrder ==
    /\ pc # "start" => (argv.setup <=> out[1] = "Running setup...")
    /\ pc # "start" => (~argv.setup <=> out[1] = "Executing commit...")
    /\ argv.setup => /\ \A i \in DOMAIN calls : calls[i] \in SetupCalls
                     /\ ~request.sent /\ ~committed.done /\ execResult = NoExec
    /\ ~argv.setup
          => /\ \A i \in DOMAIN calls : Rank(calls[i]) >= 1
             /\ calls # <<>> => calls[1] = "access"
             /\ \A i \in 2..Len(calls) :
                   \/ Rank(calls[i]) = Rank(calls[i - 1]) + 1
                   \/ calls[i] = "readFile" /\ calls[i - 1] = "readFile"
             /\ Count("readFile") <= Len(stagedFiles)
             /\ Has("generate") => Count("readFile") = Len(stagedFiles)
             /\ Has("commit") => confirmCommit = "yes"
    /\ (~argv.setup /\ configFile.kind = "json"
        /\ configFile.value.aiProvider # "Anthropic")
          => /\ ~Has("stagedQuery")
             /\ pc \in {"start", "readConfig", "end"}
             /\ pc = "end" => exit = "returned" /\ LastOut = "only works with Anthropic"

C9_Witness ==
    /\ ~argv.setup
    /\ calls = <<"access", "readConfig", "stagedQuery", "diffQuery", "readFile",
                 "readFile", "generate", "confirm", "commit">>
    /\ pc = "end"

\* C10: setup writes the configuration file at most once, as its last step
\* after the four questions, with commitTypes = the selected defaults followed
\* by the parsed custom types; a run of setup that has not reached the write
\* leaves the configuration file as it was.
C10_Saved ==
    /\ Count("writeFile") <= 1
    /\ Has("writeFile")
          => /\ calls = <<"askProvider", "askToken", "askCommitTypes", "askCustom", "writeFile">>
             /\ pc = "end"
    /\ (Has("writeFile") /\ exit = "returned")
          => configFile =
                [kind |-> "json",
                 value |-> [aiProvider |-> answers.aiProvider,
                            apiToken |-> answers.apiToken,
                            commitTypes |-> answers.commitTypes
                                            \o CustomFilter(customInput)]]

C10_SetupWritesOnceAtEnd ==
    /\ []C10_Saved
    /\ [][LastCall' # "writeFile" => configFile' = configFile]_vars

C10_Witness ==
    /\ Has("writeFile") /\ exit = "returned"
    /\ Len(answers.customCommitTypes) >= 1
    /\ Len(answers.commitTypes) = 2
====
